---- MODULE Spec2Model ----
(***************************************************************************)
(* Model of the governance canister of 2-dao/src/dao_backend:               *)
(* the token ledger, the proposal store, vote, the system parameters and    *)
(* the heartbeat executor with its suspending external call.                *)
(*                                                                          *)
(* Not modelled: Proposal.timestamp (ic_cdk::api::time(), read by no        *)
(* operation) and the read-only queries.                                    *)
(***************************************************************************)
EXTENDS Integers, Sequences, FiniteSets, TLC

----------------------------------------------------------------------------
(* Bounds of the model *)

\* width in bits of the unsigned token type of the model
TokenBits == 4
\* proposal ids of the model: 1 .. MaxProposals
MaxProposals == 2
\* submissions explored next to transfers and calls of update_proposal_state
MaxSubmissions == 1
\* heartbeat invocations that may be suspended in an external call at once
MaxTicks == 2
\* external invocations explored per proposal id
MaxCalls == 2
\* transfers explored next to the other operations
MaxTransfers == 1

----------------------------------------------------------------------------
(* Identities *)

\* the principals that hold tokens
Users == {"alice", "bob"}
\* a principal with no account
Stranger == "carol"
\* callers of the public entry points
Callers == Users \cup {Stranger}
\* ic_cdk::api::id(): the canister's own principal
Self == "dao"
\* some other canister a proposal may target
External == "ext"

----------------------------------------------------------------------------
(* Tokens: an unsigned integer of TokenBits bits.  Its arithmetic is that   *)
(* of Rust's unsigned integers: with overflow checks the operation panics   *)
(* (the message traps and its changes are rolled back), without them the    *)
(* result wraps.                                                            *)

TokenModulus == 2 ^ TokenBits

Tokens == 0 .. (TokenModulus - 1)

\* a + b does not fit the token type
AddOverflows(a, b) == a + b >= TokenModulus

\* a - b is below zero
SubOverflows(a, b) == a < b

\* wrapping sum
TokensAdd(a, b) == (a + b) % TokenModulus

\* wrapping difference
TokensSub(a, b) == (a - b + TokenModulus) % TokenModulus

----------------------------------------------------------------------------
(* Proposal states: a tuple whose head is the variant; Failed carries the   *)
(* reason execute_proposal formats (canister, method, rejection code).      *)

Open == <<"Open">>
Accepted == <<"Accepted">>
Rejected == <<"Rejected">>
Executing == <<"Executing">>
Succeeded == <<"Succeeded">>
Failed(reason) == <<"Failed">> \o reason

Tag(state) == state[1]

\* rejection codes of a failed inter-canister call
RejectCodes == {"CanisterReject"}

----------------------------------------------------------------------------
(* Maps *)

Put(map, key, value) ==
    [k \in DOMAIN map \cup {key} |-> IF k = key THEN value ELSE map[k]]

NoEntries == [k \in {} |-> 0]

RECURSIVE SumOver(_, _)
SumOver(map, keys) ==
    IF keys = {} THEN 0
    ELSE LET k == CHOOSE x \in keys : TRUE
         IN map[k] + SumOver(map, keys \ {k})

\* sum of all account balances
TotalBalance(accts) == SumOver(accts, DOMAIN accts)

Contains(seq, x) == \E i \in 1 .. Len(seq) : seq[i] = x

\* every ordering of a finite set (the iteration order of a HashMap)
Orders(set) ==
    {order \in [1 .. Cardinality(set) -> set] :
        \A i, j \in 1 .. Cardinality(set) : order[i] = order[j] => i = j}

----------------------------------------------------------------------------
(* Inputs *)

ProposalIds == 1 .. MaxProposals

\* Option<Tokens>: None is the empty sequence, Some(v) is <<v>>
Patches ==
    { [transfer_fee |-> <<2>>, proposal_vote_threshold |-> <<3>>,
       proposal_submission_deposit |-> <<>>] }

\* ProposalPayload { canister_id, method, message }: a call of an external
\* canister
ExternalRun == [canister_id |-> External, method |-> "run", message |-> <<>>]

\* payloads that call an external canister or the canister's own
\* update_system_params
ParamPayloads ==
    { ExternalRun }
    \cup { [canister_id |-> Self, method |-> "update_system_params", message |-> patch] :
             patch \in Patches }

\* payloads that call the canister's own transfer, with TransferArgs { to, amount }
TransferPayloads ==
    { [canister_id |-> Self, method |-> "transfer",
       message |-> [to |-> to, amount |-> 1]] : to \in Users }

\* payloads that call the canister's own submit_proposal, with a ProposalPayload
SubmitPayloads ==
    { [canister_id |-> Self, method |-> "submit_proposal", message |-> payload] :
        payload \in {ExternalRun} \cup TransferPayloads }

\* payloads that call the canister's own vote, with VoteArgs { proposal_id, vote }
VotePayloads ==
    { [canister_id |-> Self, method |-> "vote",
       message |-> [proposal_id |-> id, vote |-> "Yes"]] : id \in ProposalIds }

\* payloads that call the canister's own update_proposal_state
OverridePayloads ==
    { [canister_id |-> Self, method |-> "update_proposal_state",
       message |-> [proposal_id |-> id, new_state |-> Accepted]] : id \in ProposalIds }

\* the payloads of proposals: any canister and any method
Payloads ==
    ParamPayloads \cup TransferPayloads \cup SubmitPayloads \cup VotePayloads
    \cup OverridePayloads

Amounts == {1, 2}

\* the amount of the transfers made next to the other operations
BoundedAmounts == {2}

Votes == {"Yes", "No"}

\* outcomes of call_raw: a reply, or a rejection with its code
Outcomes == {"Reply"} \cup RejectCodes

\* states a caller of update_proposal_state passes
OverrideStates == {Accepted}

\* every state a caller may pass to update_proposal_state
AnyStates ==
    {Open, Accepted, Rejected, Executing, Succeeded}
    \cup {Failed(<<External, "run", code>>) : code \in RejectCodes}

\* initial snapshots (BasicDaoStableStorage) the model starts from
InitAccounts ==
    { [owner \in {"alice", "bob"} |-> IF owner = "alice" THEN 3 ELSE 2] }

InitParams ==
    { [transfer_fee |-> 1, proposal_vote_threshold |-> 2,
       proposal_submission_deposit |-> 1] }

SnapshotProposal ==
    [id |-> 1, proposer |-> "alice",
     payload |-> [canister_id |-> External, method |-> "run", message |-> <<>>],
     state |-> Open, votes_yes |-> 1, votes_no |-> 0, voters |-> <<"bob">>]

InitProposals == { NoEntries, Put(NoEntries, 1, SnapshotProposal) }

----------------------------------------------------------------------------
(* State *)

VARIABLES
    accounts,          \* BasicDaoService.accounts: principal -> Tokens
    proposals,         \* BasicDaoService.proposals: id -> Proposal
    next_proposal_id,  \* BasicDaoService.next_proposal_id
    system_params,     \* BasicDaoService.system_params
    overflow_checks,   \* whether the build panics on integer overflow
    ticks,             \* heartbeat invocations suspended in call_raw
    invoked,           \* per proposal id, the number of call_raw issued for it
    transfers,         \* the number of transfer calls made, up to MaxTransfers
    passed,            \* per proposal id, whether a vote on the proposal stored
                       \* under it ended with votes_yes at or over the threshold
    ret                \* the last operation and what it returned

vars == <<accounts, proposals, next_proposal_id, system_params,
          overflow_checks, ticks, invoked, transfers, passed, ret>>

TickIds == 1 .. MaxTicks

\* a slot of ticks that holds no suspended heartbeat
Idle ==
    [queue |-> <<>>, delivered |-> FALSE, trapped |-> FALSE,
     payload |-> [canister_id |-> "none", method |-> "none", message |-> <<>>]]

----------------------------------------------------------------------------
(* transfer *)

\* lib.rs 94: the balance check made before the debit
TransferRefused(balance, amount, fee) == balance < amount

\* lib.rs 84-110
transfer(accts, params, caller, to, amount, checks) ==
    LET fee == params.transfer_fee
    IN  IF caller \notin DOMAIN accts
        THEN [res |-> "NoAccount", accounts |-> accts]
        ELSE IF TransferRefused(accts[caller], amount, fee)
        THEN [res |-> "InsufficientFunds", accounts |-> accts]
        ELSE LET debit == TokensAdd(amount, fee)
                 debited == [accts EXCEPT ![caller] = TokensSub(@, debit)]
                 entry == IF to \in DOMAIN debited THEN debited
                          ELSE Put(debited, to, 0)
                 credited == [entry EXCEPT ![to] = TokensAdd(@, amount)]
                 overflow == \/ AddOverflows(amount, fee)
                             \/ SubOverflows(accts[caller], debit)
                             \/ AddOverflows(entry[to], amount)
             IN  IF checks /\ overflow
                 THEN [res |-> "Trap", accounts |-> accts]
                 ELSE [res |-> "Ok", accounts |-> credited]

\* the update call, from whoever sends it
TransferCall(caller, to, amount) ==
    LET out == transfer(accounts, system_params, caller, to, amount, overflow_checks)
    IN  /\ accounts' = out.accounts
        /\ ret' = [op |-> "transfer", res |-> out.res, caller |-> caller,
                   to |-> to, amount |-> amount]
        /\ transfers' = IF transfers < MaxTransfers THEN transfers + 1 ELSE transfers
        /\ UNCHANGED <<proposals, next_proposal_id, system_params,
                       overflow_checks, invoked, passed>>

\* the entry point called by a user
Transfer(caller, to, amount) ==
    /\ TransferCall(caller, to, amount)
    /\ UNCHANGED ticks

----------------------------------------------------------------------------
(* submit_proposal *)

\* a refusal of a balance that equals the deposit
SubmitRefusedAtDeposit(balance, deposit) == balance <= deposit

\* lib.rs 122: the balance check made before the deposit is taken
SubmitRefused(balance, deposit) == balance < deposit

\* lib.rs 112-147
submit_proposal(accts, props, next_id, params, caller, payload) ==
    LET deposit == params.proposal_submission_deposit
        unchanged == [accounts |-> accts, proposals |-> props, next_id |-> next_id]
    IN  IF caller \notin DOMAIN accts
        THEN [res |-> "NoAccount", id |-> 0] @@ unchanged
        ELSE IF SubmitRefused(accts[caller], deposit)
        THEN [res |-> "InsufficientFunds", id |-> 0] @@ unchanged
        ELSE LET new_proposal ==
                     [id |-> next_id, proposer |-> caller, payload |-> payload,
                      state |-> Open, votes_yes |-> 0, votes_no |-> 0,
                      voters |-> <<>>]
             IN  [res |-> "Ok", id |-> next_id,
                  accounts |-> [accts EXCEPT ![caller] = TokensSub(@, deposit)],
                  proposals |-> Put(props, next_id, new_proposal),
                  next_id |-> next_id + 1]

\* the update call, from whoever sends it
SubmitProposalCall(caller, payload) ==
    /\ LET out == submit_proposal(accounts, proposals, next_proposal_id,
                                  system_params, caller, payload)
       IN  /\ accounts' = out.accounts
           /\ proposals' = out.proposals
           /\ next_proposal_id' = out.next_id
           /\ ret' = [op |-> "submit_proposal", res |-> out.res, id |-> out.id,
                      caller |-> caller]
           \* the count of invocations is that of the proposal now stored
           /\ invoked' = IF out.res = "Ok" THEN [invoked EXCEPT ![out.id] = 0]
                         ELSE invoked
           \* and nobody has voted on that proposal
           /\ passed' = IF out.res = "Ok" THEN [passed EXCEPT ![out.id] = FALSE]
                        ELSE passed
    /\ UNCHANGED <<system_params, overflow_checks, transfers>>

\* the entry point called by a user
SubmitProposal(caller, payload) ==
    /\ SubmitProposalCall(caller, payload)
    /\ UNCHANGED ticks

----------------------------------------------------------------------------
(* vote *)

\* a check of the last voter only
AlreadyVotedLast(proposal, caller) ==
    proposal.voters # <<>> /\ proposal.voters[Len(proposal.voters)] = caller

\* lib.rs 167: the caller is in the proposal's voter list
AlreadyVoted(proposal, caller) == Contains(proposal.voters, caller)

\* one identity, one vote: the tally of the choice grows by 1
TallyHeads(proposal, choice, voting_power) ==
    IF choice = "Yes"
    THEN [proposal EXCEPT !.votes_yes = TokensAdd(@, 1)]
    ELSE [proposal EXCEPT !.votes_no = TokensAdd(@, 1)]

\* lib.rs 171-174: the voting power is added to the tally of the choice
Tally(proposal, choice, voting_power) ==
    IF choice = "Yes"
    THEN [proposal EXCEPT !.votes_yes = TokensAdd(@, voting_power)]
    ELSE [proposal EXCEPT !.votes_no = TokensAdd(@, voting_power)]

\* the two threshold checks in the other order
DecideNoFirst(proposal, threshold) ==
    IF proposal.votes_no >= threshold THEN Rejected
    ELSE IF proposal.votes_yes >= threshold THEN Accepted
    ELSE proposal.state

\* lib.rs 178-182: the state a vote leaves the proposal in
Decide(proposal, threshold) ==
    IF proposal.votes_yes >= threshold THEN Accepted
    ELSE IF proposal.votes_no >= threshold THEN Rejected
    ELSE proposal.state

\* a vote that looks for the proposal before it looks for the caller's account
vote_proposal_first(accts, props, params, caller, proposal_id, choice, checks) ==
    LET failed(res) == [res |-> res, proposals |-> props, state |-> <<>>]
    IN  IF proposal_id \notin DOMAIN props THEN failed("NotFound")
        ELSE IF caller \notin DOMAIN accts THEN failed("NoAccount")
        ELSE IF AlreadyVoted(props[proposal_id], caller) THEN failed("AlreadyVoted")
        ELSE LET proposal == props[proposal_id]
                 voting_power == accts[caller]
                 overflow == AddOverflows(IF choice = "Yes" THEN proposal.votes_yes
                                          ELSE proposal.votes_no, voting_power)
                 tallied == Tally(proposal, choice, voting_power)
                 pushed == [tallied EXCEPT !.voters = Append(@, caller)]
                 decided == [pushed EXCEPT
                               !.state = Decide(pushed, params.proposal_vote_threshold)]
             IN  IF checks /\ overflow THEN failed("Trap")
                 ELSE [res |-> "Ok",
                       proposals |-> [props EXCEPT ![proposal_id] = decided],
                       state |-> decided.state]

\* lib.rs 149-186
vote(accts, props, params, caller, proposal_id, choice, checks) ==
    LET failed(res) == [res |-> res, proposals |-> props, state |-> <<>>]
    IN  IF caller \notin DOMAIN accts THEN failed("NoAccount")
        ELSE IF proposal_id \notin DOMAIN props THEN failed("NotFound")
        ELSE IF AlreadyVoted(props[proposal_id], caller) THEN failed("AlreadyVoted")
        ELSE LET proposal == props[proposal_id]
                 voting_power == accts[caller]
                 overflow == AddOverflows(IF choice = "Yes" THEN proposal.votes_yes
                                          ELSE proposal.votes_no, voting_power)
                 tallied == Tally(proposal, choice, voting_power)
                 pushed == [tallied EXCEPT !.voters = Append(@, caller)]
                 decided == [pushed EXCEPT
                               !.state = Decide(pushed, params.proposal_vote_threshold)]
             IN  IF checks /\ overflow THEN failed("Trap")
                 ELSE [res |-> "Ok",
                       proposals |-> [props EXCEPT ![proposal_id] = decided],
                       state |-> decided.state]

\* the update call, from whoever sends it
VoteCall(caller, proposal_id, choice) ==
    LET out == vote(accounts, proposals, system_params, caller, proposal_id,
                    choice, overflow_checks)
    IN  /\ proposals' = out.proposals
        /\ ret' = [op |-> "vote", res |-> out.res, id |-> proposal_id,
                   state |-> out.state]
        /\ passed' =
               IF /\ out.res = "Ok"
                  /\ out.proposals[proposal_id].votes_yes
                         >= system_params.proposal_vote_threshold
               THEN [passed EXCEPT ![proposal_id] = TRUE]
               ELSE passed
        /\ UNCHANGED <<accounts, next_proposal_id, system_params,
                       overflow_checks, invoked, transfers>>

\* the entry point called by a user
Vote(caller, proposal_id, choice) ==
    /\ VoteCall(caller, proposal_id, choice)
    /\ UNCHANGED ticks

----------------------------------------------------------------------------
(* update_proposal_state *)

\* an override that walks the store without comparing the ids
update_proposal_state_every(props, proposal_id, new_state) ==
    IF proposal_id \in DOMAIN props
    THEN [id \in DOMAIN props |-> [props[id] EXCEPT !.state = new_state]]
    ELSE props

\* lib.rs 188-197
update_proposal_state(props, proposal_id, new_state) ==
    IF proposal_id \in DOMAIN props
    THEN [props EXCEPT ![proposal_id].state = new_state]
    ELSE props

\* the update call, from whoever sends it
UpdateProposalStateCall(caller, proposal_id, new_state) ==
    /\ proposals' = update_proposal_state(proposals, proposal_id, new_state)
    /\ ret' = [op |-> "update_proposal_state", res |-> "Ok", id |-> proposal_id,
               caller |-> caller]
    /\ UNCHANGED <<accounts, next_proposal_id, system_params,
                   overflow_checks, invoked, transfers, passed>>

\* the entry point called from outside
UpdateProposalState(caller, proposal_id, new_state) ==
    /\ UpdateProposalStateCall(caller, proposal_id, new_state)
    /\ UNCHANGED ticks

----------------------------------------------------------------------------
(* update_system_params *)

\* a check that lets every caller pass
AnyCaller(caller) == TRUE

\* lib.rs 206: only the canister itself passes
Privileged(caller) == caller = Self

\* an overwrite that takes an absent field for zero
OverwriteOrZero(current, option) == IF option = <<>> THEN 0 ELSE option[1]

\* one Option field of the payload applied to the current value
Overwrite(current, option) == IF option = <<>> THEN current ELSE option[1]

\* lib.rs 200-221
update_system_params(params, caller, payload) ==
    IF ~Privileged(caller) THEN params
    ELSE [transfer_fee |-> Overwrite(params.transfer_fee, payload.transfer_fee),
          proposal_vote_threshold |->
              Overwrite(params.proposal_vote_threshold, payload.proposal_vote_threshold),
          proposal_submission_deposit |->
              Overwrite(params.proposal_submission_deposit,
                        payload.proposal_submission_deposit)]

\* the update call, from whoever sends it
UpdateSystemParamsCall(caller, payload) ==
    /\ system_params' = update_system_params(system_params, caller, payload)
    /\ ret' = [op |-> "update_system_params", res |-> "Ok", caller |-> caller]
    /\ UNCHANGED <<accounts, proposals, next_proposal_id,
                   overflow_checks, invoked, transfers, passed>>

\* the entry point called by a user
UpdateSystemParams(caller, payload) ==
    /\ UpdateSystemParamsCall(caller, payload)
    /\ UNCHANGED ticks

----------------------------------------------------------------------------
(* The executor: heartbeat -> execute_accepted_proposals.  A heartbeat runs  *)
(* without interruption up to the first call_raw(..).await; it resumes when  *)
(* the response of that call arrives, and runs up to the next call_raw.      *)
(* Proposals are never removed, so execute_proposal always finds the one it  *)
(* is given (heartbeat.rs 37-39 never fails).                                *)

\* heartbeat.rs 16: the proposals the scan selects
AcceptedIds(props) == {id \in DOMAIN props : props[id].state = Accepted}

\* a scan that flips one Accepted proposal only, the one with the lowest id
ClaimOne(props) ==
    [id \in DOMAIN props |->
        IF props[id].state = Accepted /\ \A other \in AcceptedIds(props) : id <= other
        THEN [props[id] EXCEPT !.state = Executing]
        ELSE props[id]]

\* heartbeat.rs 12-22: the scan flips every Accepted proposal to Executing
Claim(props) ==
    [id \in DOMAIN props |->
        IF props[id].state = Accepted
        THEN [props[id] EXCEPT !.state = Executing]
        ELSE props[id]]

\* heartbeat.rs 35-46: execute_proposal clones the proposal of the head of the
\* queue and suspends in call_raw on its payload
Suspend(props, queue) ==
    [queue |-> queue, delivered |-> FALSE, trapped |-> FALSE,
     payload |-> props[queue[1]].payload]

\* a response whose error is dropped
FinalizeAsSucceeded(payload, outcome) == Succeeded

\* heartbeat.rs 25-28 and 47-56: the state the response of call_raw maps to
Finalize(payload, outcome) ==
    IF outcome = "Reply" THEN Succeeded
    ELSE Failed(<<payload.canister_id, payload.method, outcome>>)

\* one more external invocation, counted up to MaxCalls
Counted(n) == IF n < MaxCalls THEN n + 1 ELSE n

\* a slot for a heartbeat that suspends
FreeTick == CHOOSE t \in TickIds : ticks[t] = Idle /\ \A u \in 1 .. (t - 1) : ticks[u] # Idle

\* heartbeat.rs 5-25: the scan, and the first external call when something
\* was claimed
Heartbeat(order) ==
    /\ order \in Orders(AcceptedIds(proposals))
    /\ \A id \in AcceptedIds(proposals) : invoked[id] < MaxCalls
    /\ proposals' = Claim(proposals)
    /\ IF order = <<>>
       THEN UNCHANGED <<ticks, invoked>>
       ELSE /\ \E t \in TickIds : ticks[t] = Idle
            /\ ticks' = [ticks EXCEPT ![FreeTick] = Suspend(proposals', order)]
            /\ invoked' = [invoked EXCEPT ![order[1]] = Counted(@)]
    /\ ret' = [op |-> "heartbeat", res |-> "Ok", claimed |-> order]
    /\ UNCHANGED <<accounts, next_proposal_id, system_params, overflow_checks,
                   transfers, passed>>

\* heartbeat.rs 41-46: call_raw on the canister's own id runs the method the
\* payload names, with the canister as the caller and the message as the
\* argument
SelfCall(payload) ==
    LET method == payload.method
        message == payload.message
    IN  CASE method = "transfer" ->
                 TransferCall(Self, message.to, message.amount)
          [] method = "submit_proposal" ->
                 /\ next_proposal_id <= MaxProposals
                 /\ SubmitProposalCall(Self, message)
          [] method = "vote" ->
                 VoteCall(Self, message.proposal_id, message.vote)
          [] method = "update_proposal_state" ->
                 UpdateProposalStateCall(Self, message.proposal_id, message.new_state)
          [] method = "update_system_params" ->
                 UpdateSystemParamsCall(Self, message)

\* the canister runs a pending call to itself: the call replies when the
\* method returns, and is rejected with the state left as it was when the
\* method traps
DeliverSelfCall(t) ==
    /\ ticks[t] # Idle
    /\ ticks[t].payload.canister_id = Self
    /\ ~ticks[t].delivered
    /\ ~ticks[t].trapped
    /\ SelfCall(ticks[t].payload)
    /\ ticks' = [ticks EXCEPT ![t] = IF ret'.res = "Trap"
                                     THEN [@ EXCEPT !.trapped = TRUE]
                                     ELSE [@ EXCEPT !.delivered = TRUE]]

\* a finalization that gives the deposit back to the proposer of a proposal
\* whose call was rejected
RespondRefunding(t, outcome) ==
    /\ ticks[t] # Idle
    /\ ticks[t].payload.canister_id = Self =>
           (outcome = "Reply" <=> ticks[t].delivered)
    /\ LET proposal_id == Head(ticks[t].queue)
           rest == Tail(ticks[t].queue)
           state == Finalize(ticks[t].payload, outcome)
           proposer == proposals[proposal_id].proposer
       IN  /\ proposals' = update_proposal_state(proposals, proposal_id, state)
           /\ accounts' =
                  IF outcome = "Reply" THEN accounts
                  ELSE [accounts EXCEPT ![proposer] =
                           TokensAdd(@, system_params.proposal_submission_deposit)]
           /\ IF rest = <<>>
              THEN /\ ticks' = [ticks EXCEPT ![t] = Idle]
                   /\ UNCHANGED invoked
              ELSE /\ ticks' = [ticks EXCEPT ![t] = Suspend(proposals', rest)]
                   /\ invoked' = [invoked EXCEPT ![rest[1]] = Counted(@)]
           /\ ret' = [op |-> "finalize", res |-> outcome, id |-> proposal_id,
                      tick |-> t]
    /\ UNCHANGED <<next_proposal_id, system_params, overflow_checks, transfers,
                   passed>>

\* heartbeat.rs 25-31: the response of the pending call arrives; the proposal
\* is finalized and the loop goes on to the next claimed proposal
Respond(t, outcome) ==
    /\ ticks[t] # Idle
    /\ ticks[t].payload.canister_id = Self =>
           (outcome = "Reply" <=> ticks[t].delivered)
    /\ LET proposal_id == Head(ticks[t].queue)
           rest == Tail(ticks[t].queue)
           state == Finalize(ticks[t].payload, outcome)
       IN  /\ proposals' = update_proposal_state(proposals, proposal_id, state)
           /\ IF rest = <<>>
              THEN /\ ticks' = [ticks EXCEPT ![t] = Idle]
                   /\ UNCHANGED invoked
              ELSE /\ ticks' = [ticks EXCEPT ![t] = Suspend(proposals', rest)]
                   /\ invoked' = [invoked EXCEPT ![rest[1]] = Counted(@)]
           /\ ret' = [op |-> "finalize", res |-> outcome, id |-> proposal_id,
                      tick |-> t]
    /\ UNCHANGED <<accounts, next_proposal_id, system_params, overflow_checks,
                   transfers, passed>>

----------------------------------------------------------------------------
(* Specifications *)

\* lib.rs 21-45: init from the stable snapshot
Init ==
    /\ accounts \in InitAccounts
    /\ proposals \in InitProposals
    /\ next_proposal_id = 1
    /\ system_params \in InitParams
    /\ overflow_checks \in BOOLEAN
    /\ ticks = [t \in TickIds |-> Idle]
    /\ invoked = [id \in ProposalIds |-> 0]
    /\ transfers = 0
    /\ passed = [id \in ProposalIds |-> FALSE]
    /\ ret = [op |-> "init", res |-> "Ok"]

\* transfers between any two callers
DoTransfer == \E caller \in Callers, to \in Callers, amount \in Amounts :
                  Transfer(caller, to, amount)

\* transfers to the token holders, while fewer than MaxTransfers were made
DoBoundedTransfer ==
    /\ transfers < MaxTransfers
    /\ \E caller \in Callers, to \in Users, amount \in BoundedAmounts :
           Transfer(caller, to, amount)

\* one more submission while fewer than max proposals were submitted
DoSubmitProposal(max) ==
    /\ next_proposal_id <= max
    /\ \E caller \in Callers, payload \in ParamPayloads :
           SubmitProposal(caller, payload)

DoVote == \E caller \in Callers, proposal_id \in ProposalIds, choice \in Votes :
              Vote(caller, proposal_id, choice)

DoUpdateProposalState ==
    \E caller \in Users, proposal_id \in ProposalIds, new_state \in OverrideStates :
        UpdateProposalState(caller, proposal_id, new_state)

DoUpdateSystemParams == \E caller \in Users, payload \in Patches :
                            UpdateSystemParams(caller, payload)

DoHeartbeat == \E order \in Orders(AcceptedIds(proposals)) : Heartbeat(order)

DoDeliverSelfCall == \E t \in TickIds : DeliverSelfCall(t)

DoRespond == \E t \in TickIds, outcome \in Outcomes : Respond(t, outcome)

\* every entry point
Next ==
    \/ DoBoundedTransfer
    \/ DoSubmitProposal(MaxSubmissions)
    \/ DoVote
    \/ DoUpdateProposalState
    \/ DoUpdateSystemParams
    \/ DoHeartbeat
    \/ DoDeliverSelfCall
    \/ DoRespond

Spec == Init /\ [][Next]_vars

\* the entry points without calls of update_proposal_state from outside
NextCore ==
    \/ DoBoundedTransfer
    \/ DoSubmitProposal(MaxSubmissions)
    \/ DoVote
    \/ DoUpdateSystemParams
    \/ DoHeartbeat
    \/ DoDeliverSelfCall
    \/ DoRespond

SpecCore == Init /\ [][NextCore]_vars

\* transfers alone, any number of them
NextLedger == DoTransfer

SpecLedger == Init /\ [][NextLedger]_vars

\* bob submits up to MaxProposals proposals
DoSubmitMany ==
    /\ next_proposal_id <= MaxProposals
    /\ \E payload \in ParamPayloads : SubmitProposal("bob", payload)

\* the token holders vote Yes
DoVoteYes == \E caller \in Users, proposal_id \in ProposalIds :
                 Vote(caller, proposal_id, "Yes")

\* submissions, Yes votes and the executor, with MaxProposals proposals
NextExec ==
    \/ DoSubmitMany
    \/ DoVoteYes
    \/ DoHeartbeat
    \/ DoDeliverSelfCall
    \/ DoRespond

SpecExec == Init /\ [][NextExec]_vars

\* submissions by any caller, up to MaxProposals proposals, next to transfers
NextSubmit ==
    \/ DoSubmitProposal(MaxProposals)
    \/ DoBoundedTransfer

SpecSubmit == Init /\ [][NextSubmit]_vars

\* the snapshot of the voting scenario, in units of ten tokens: two holders
\* with 60 and 50 tokens, a threshold of 100, and one Open proposal nobody has
\* voted on
ScenarioAccounts == [owner \in Users |-> IF owner = "alice" THEN 6 ELSE 5]

ScenarioParams ==
    [transfer_fee |-> 1, proposal_vote_threshold |-> 10,
     proposal_submission_deposit |-> 1]

ScenarioProposal == [SnapshotProposal EXCEPT !.votes_yes = 0, !.voters = <<>>]

InitVote ==
    /\ accounts = ScenarioAccounts
    /\ proposals = Put(NoEntries, 1, ScenarioProposal)
    /\ next_proposal_id = 1
    /\ system_params = ScenarioParams
    /\ overflow_checks \in BOOLEAN
    /\ ticks = [t \in TickIds |-> Idle]
    /\ invoked = [id \in ProposalIds |-> 0]
    /\ transfers = 0
    /\ passed = [id \in ProposalIds |-> FALSE]
    /\ ret = [op |-> "init", res |-> "Ok"]

\* votes, next to transfers and the executor
NextVote ==
    \/ DoBoundedTransfer
    \/ DoVote
    \/ DoHeartbeat
    \/ DoRespond

SpecVote == InitVote /\ [][NextVote]_vars

\* the executor under fair scheduling: heartbeats keep being triggered and
\* every pending call gets its response
Fairness ==
    /\ WF_vars(DoHeartbeat)
    /\ \A t \in TickIds : WF_vars(\E outcome \in Outcomes : Respond(t, outcome))

SpecExecFair == SpecExec /\ Fairness

\* every shape of UpdateSystemParamsPayload: each field absent or present
AnyPatches ==
    [transfer_fee : {<<>>, <<2>>},
     proposal_vote_threshold : {<<>>, <<3>>},
     proposal_submission_deposit : {<<>>, <<2>>}]

\* the patches carried by proposals: the empty one, one without deposit, and
\* the full one
ProposedPatches ==
    {patch \in AnyPatches :
        /\ patch.transfer_fee = <<>> <=> patch.proposal_vote_threshold = <<>>
        /\ patch.transfer_fee = <<>> => patch.proposal_submission_deposit = <<>>}

\* a snapshot with one Open proposal, under the last id, that asks the
\* canister to update its own parameters
PatchProposals ==
    { Put(NoEntries, MaxProposals,
          [id |-> MaxProposals, proposer |-> "bob",
           payload |-> [canister_id |-> Self, method |-> "update_system_params",
                        message |-> patch],
           state |-> Open, votes_yes |-> 0, votes_no |-> 0, voters |-> <<>>]) :
        patch \in ProposedPatches }

InitPatch ==
    /\ accounts \in InitAccounts
    /\ proposals \in PatchProposals
    /\ next_proposal_id = 1
    /\ system_params \in InitParams
    /\ overflow_checks \in BOOLEAN
    /\ ticks = [t \in TickIds |-> Idle]
    /\ invoked = [id \in ProposalIds |-> 0]
    /\ transfers = 0
    /\ passed = [id \in ProposalIds |-> FALSE]
    /\ ret = [op |-> "init", res |-> "Ok"]

\* once the snapshot's proposal was executed, alice submits a proposal for
\* an external canister, while the snapshot's id is free
DoSubmitExternal ==
    /\ next_proposal_id < MaxProposals
    /\ Tag(proposals[MaxProposals].state) \in {"Succeeded", "Failed"}
    /\ SubmitProposal("alice", ExternalRun)

\* alice sends one token to bob, while fewer than MaxTransfers were made
DoTransferOne ==
    /\ transfers < MaxTransfers
    /\ Transfer("alice", "bob", 1)

\* the update of the parameters by an executed proposal, next to the
\* operations that read the parameters
NextPatch ==
    \/ DoTransferOne
    \/ DoSubmitExternal
    \/ DoVoteYes
    \/ DoHeartbeat
    \/ DoDeliverSelfCall
    \/ DoRespond

SpecPatch == InitPatch /\ [][NextPatch]_vars

\* alice sends tokens to the canister's own account, while fewer than
\* MaxTransfers transfers were made
DoFund ==
    /\ transfers < MaxTransfers
    /\ \E amount \in BoundedAmounts : Transfer("alice", Self, amount)

\* bob submits a proposal with any payload, while fewer than MaxSubmissions
\* proposals were submitted
DoPropose ==
    /\ next_proposal_id <= MaxSubmissions
    /\ \E payload \in Payloads : SubmitProposal("bob", payload)

\* alice calls update_proposal_state to have an Open proposal executed that
\* the canister submitted
DoAccept ==
    \E proposal_id \in DOMAIN proposals :
        /\ proposals[proposal_id].state = Open
        /\ proposals[proposal_id].proposer = Self
        /\ UpdateProposalState("alice", proposal_id, Accepted)

\* the token holders vote
DoVoteAny == \E caller \in Users, proposal_id \in ProposalIds, choice \in Votes :
                 Vote(caller, proposal_id, choice)

\* proposals that call any method of the canister itself, which holds tokens
NextTreasury ==
    \/ DoFund
    \/ DoPropose
    \/ DoVoteAny
    \/ DoAccept
    \/ DoHeartbeat
    \/ DoDeliverSelfCall
    \/ DoRespond

SpecTreasury == Init /\ [][NextTreasury]_vars

\* alice passes any state to update_proposal_state
DoOverride ==
    \E proposal_id \in ProposalIds, new_state \in AnyStates :
        UpdateProposalState("alice", proposal_id, new_state)

\* overrides of the state of up to MaxProposals proposals, next to the executor
NextOverride ==
    \/ DoSubmitMany
    \/ DoOverride
    \/ DoHeartbeat
    \/ DoDeliverSelfCall
    \/ DoRespond

SpecOverride == Init /\ [][NextOverride]_vars

----------------------------------------------------------------------------
(* Claims on the ledger *)

\* C1: a transfer by a caller whose balance is below amount + transfer_fee
\* returns InsufficientFunds and leaves every balance unchanged.
C1_ShortTransferRefused ==
    [][(/\ ret'.op = "transfer"
        /\ ret'.caller \in DOMAIN accounts
        /\ accounts[ret'.caller] < ret'.amount + system_params.transfer_fee)
       => (ret'.res = "InsufficientFunds" /\ accounts' = accounts)]_vars

\* C2: no operation applies a debit that exceeds the balance it is taken
\* from, so no balance is the result of an underflow.
C2_NoUnderflow ==
    [][/\ (ret'.op = "transfer" /\ ret'.res = "Ok")
           => accounts[ret'.caller] >= ret'.amount + system_params.transfer_fee
       /\ (ret'.op = "submit_proposal" /\ ret'.res = "Ok")
           => accounts[ret'.caller] >= system_params.proposal_submission_deposit
       /\ ret'.op \notin {"transfer", "submit_proposal"} => accounts' = accounts]_vars

\* the balance of a principal, 0 when it has no entry
BalanceOf(accts, owner) == IF owner \in DOMAIN accts THEN accts[owner] ELSE 0

\* C3: a successful transfer takes amount + transfer_fee from the caller,
\* gives amount to the recipient and lowers the sum of the balances by the
\* fee; a failed transfer changes no balance.
C3_Conservation ==
    [][ret'.op = "transfer" =>
        LET fee == system_params.transfer_fee
            from == ret'.caller
            to == ret'.to
            amount == ret'.amount
        IN  IF ret'.res = "Ok"
            THEN /\ TotalBalance(accounts') = TotalBalance(accounts) - fee
                 /\ from # to =>
                       /\ accounts'[from] = accounts[from] - (amount + fee)
                       /\ accounts'[to] = BalanceOf(accounts, to) + amount
                 /\ from = to => accounts'[from] = accounts[from] - fee
                 /\ \A other \in DOMAIN accounts \ {from, to} :
                        accounts'[other] = accounts[other]
            ELSE accounts' = accounts]_vars

----------------------------------------------------------------------------
(* Claims on vote *)

\* a submission stored a new proposal under this id in the step
Resubmitted(id) ==
    ret'.op = "submit_proposal" /\ ret'.res = "Ok" /\ ret'.id = id

\* in this state, a vote of either choice by an identity in the voter list of
\* a proposal fails with AlreadyVoted and changes no proposal
RepeatedVoteRefused ==
    \A id \in DOMAIN proposals, caller \in Callers, choice \in Votes :
        Contains(proposals[id].voters, caller) =>
            LET out == vote(accounts, proposals, system_params, caller, id,
                            choice, overflow_checks)
            IN  out.res = "AlreadyVoted" /\ out.proposals = proposals

\* an identity in the voter list of a proposal stays in it
VotersKept ==
    \A id \in DOMAIN proposals, caller \in Callers :
        (Contains(proposals[id].voters, caller) /\ ~Resubmitted(id)) =>
            (id \in DOMAIN proposals' /\ Contains(proposals'[id].voters, caller))

\* C4: once an identity is in the voter list of a proposal it stays there as
\* long as the proposal is stored, and every vote it then casts on the
\* proposal, with either choice and in whatever state the proposal is, fails
\* with AlreadyVoted and leaves the tallies, the voter list and the state of
\* the proposal unchanged.
C4_SecondVoteRefused == []RepeatedVoteRefused /\ [][VotersKept]_vars

\* C4 happens: a vote was refused as AlreadyVoted on a proposal that is no
\* longer Open
C4_Witness ==
    /\ ret.op = "vote"
    /\ ret.res = "AlreadyVoted"
    /\ proposals[ret.id].state # Open

\* C5: after a successful vote, with T the threshold: votes_yes >= T gives
\* Accepted, also when votes_no >= T; votes_yes < T and votes_no >= T gives
\* Rejected; when neither tally reaches T the state is the one before the
\* vote; and vote returns the stored state.
C5_ThresholdPolicy ==
    [][(ret'.op = "vote" /\ ret'.res = "Ok") =>
        LET before == proposals[ret'.id]
            after == proposals'[ret'.id]
            T == system_params.proposal_vote_threshold
        IN  /\ after.votes_yes >= T => after.state = Accepted
            /\ (after.votes_yes < T /\ after.votes_no >= T) => after.state = Rejected
            /\ (after.votes_yes < T /\ after.votes_no < T) => after.state = before.state
            /\ ret'.state = after.state]_vars

\* C5 happens: a vote left both tallies at or over the threshold and the
\* proposal Accepted
C5_Witness ==
    /\ ret.op = "vote"
    /\ ret.res = "Ok"
    /\ proposals[ret.id].votes_yes >= system_params.proposal_vote_threshold
    /\ proposals[ret.id].votes_no >= system_params.proposal_vote_threshold
    /\ proposals[ret.id].state = Accepted
    /\ ret.state = Accepted

----------------------------------------------------------------------------
(* Claims on the proposal lifecycle *)

\* the edges of the lifecycle
Edge(from, to) ==
    \/ Tag(from) = "Open" /\ Tag(to) \in {"Accepted", "Rejected"}
    \/ Tag(from) = "Accepted" /\ Tag(to) = "Executing"
    \/ Tag(from) = "Executing" /\ Tag(to) \in {"Succeeded", "Failed"}

\* C6: every change of the state of a stored proposal follows an edge
\* Open->Accepted, Open->Rejected, Accepted->Executing, Executing->Succeeded,
\* Executing->Failed.
C6_ForwardOnly ==
    [][\A id \in DOMAIN proposals :
          (~Resubmitted(id) /\ proposals'[id].state # proposals[id].state) =>
              Edge(proposals[id].state, proposals'[id].state)]_vars

\* C7: a proposal that is Succeeded, Failed or Rejected keeps its state.
C7_TerminalStays ==
    [][\A id \in DOMAIN proposals :
          (/\ ~Resubmitted(id)
           /\ Tag(proposals[id].state) \in {"Succeeded", "Failed", "Rejected"})
          => proposals'[id].state = proposals[id].state]_vars

\* C8: the external target of a proposal is invoked at most once.
C8_InvokedOnce == \A id \in DOMAIN proposals : invoked[id] <= 1

\* the external call of the proposal is pending
Pending(id) == \E t \in TickIds : ticks[t] # Idle /\ Head(ticks[t].queue) = id

\* C9: a vote on a proposal that is Executing with its external call pending
\* leaves the proposal Executing.
C9_VoteKeepsExecuting ==
    [][\A id \in DOMAIN proposals :
          (/\ ret'.op = "vote"
           /\ ret'.id = id
           /\ proposals[id].state = Executing
           /\ Pending(id))
          => proposals'[id].state = Executing]_vars

\* C10: when the response of the external call of a proposal arrives, the
\* proposal becomes Succeeded on a reply and Failed, with the canister, the
\* method and the rejection code as reason, on a rejection; no other proposal
\* changes; and whatever the outcome, the heartbeat goes on to invoke the
\* next proposal it claimed.
C10_Finalize ==
    [][ret'.op = "finalize" =>
        LET t == ret'.tick
            id == ret'.id
            rest == Tail(ticks[t].queue)
        IN  /\ id = Head(ticks[t].queue)
            /\ ret'.res = "Reply" => proposals'[id].state = Succeeded
            /\ ret'.res # "Reply" =>
                   proposals'[id].state =
                       <<"Failed", ticks[t].payload.canister_id,
                         ticks[t].payload.method, ret'.res>>
            /\ \A other \in DOMAIN proposals \ {id} :
                   proposals'[other] = proposals[other]
            /\ ticks'[t].queue = rest
            /\ rest # <<>> =>
                   /\ ticks'[t].payload = proposals[rest[1]].payload
                   /\ ~ticks'[t].delivered
                   /\ invoked'[rest[1]] = Counted(invoked[rest[1]])]_vars

\* C10 happens: a call was rejected, its proposal is Failed and the heartbeat
\* is suspended in the call of the next proposal it claimed
C10_Witness ==
    /\ ret.op = "finalize"
    /\ ret.res \in RejectCodes
    /\ Tag(proposals[ret.id].state) = "Failed"
    /\ ticks[ret.tick] # Idle
    /\ Head(ticks[ret.tick].queue) # ret.id
    /\ invoked[Head(ticks[ret.tick].queue)] >= 1

----------------------------------------------------------------------------
(* Claims on submit_proposal *)

\* C11: a successful submission returns the next proposal id, which is above
\* every id returned before and is not the id of a stored proposal, and it
\* changes no stored proposal; a failed submission leaves the next id
\* unchanged.  (The first id is 1: Init sets next_proposal_id to 1.)
C11_FreshIds ==
    [][ret'.op = "submit_proposal" =>
        IF ret'.res = "Ok"
        THEN /\ ret'.id = next_proposal_id
             /\ next_proposal_id' > next_proposal_id
             /\ ret'.id \notin DOMAIN proposals
             /\ \A id \in DOMAIN proposals : proposals'[id] = proposals[id]
        ELSE next_proposal_id' = next_proposal_id]_vars

\* C12: a submission by a proposer whose balance is at least the deposit
\* takes exactly the deposit from the proposer, changes no other balance and
\* stores an Open proposal with zero tallies and no voters; a submission by a
\* proposer whose balance is below the deposit fails with InsufficientFunds,
\* one by an identity without account with NoAccount, and a failed
\* submission changes neither the accounts, nor the proposals, nor the next id.
C12_SubmitEffects ==
    [][ret'.op = "submit_proposal" =>
        LET caller == ret'.caller
            deposit == system_params.proposal_submission_deposit
        IN  /\ caller \notin DOMAIN accounts => ret'.res = "NoAccount"
            /\ (caller \in DOMAIN accounts /\ accounts[caller] < deposit)
                   => ret'.res = "InsufficientFunds"
            /\ (caller \in DOMAIN accounts /\ accounts[caller] >= deposit)
                   => /\ ret'.res = "Ok"
                      /\ accounts' =
                             [accounts EXCEPT ![caller] = accounts[caller] - deposit]
                      /\ ret'.id \in DOMAIN proposals'
                      /\ proposals'[ret'.id].id = ret'.id
                      /\ proposals'[ret'.id].proposer = caller
                      /\ proposals'[ret'.id].state = Open
                      /\ proposals'[ret'.id].votes_yes = 0
                      /\ proposals'[ret'.id].votes_no = 0
                      /\ proposals'[ret'.id].voters = <<>>
            /\ ret'.res # "Ok"
                   => /\ accounts' = accounts
                      /\ proposals' = proposals
                      /\ next_proposal_id' = next_proposal_id]_vars

\* C12 happens: a proposer whose balance was the deposit submitted and is
\* left with 0
C12_Witness ==
    /\ ret.op = "submit_proposal"
    /\ ret.res = "Ok"
    /\ accounts[ret.caller] = 0
    /\ system_params.proposal_submission_deposit > 0
    /\ proposals[ret.id].state = Open

----------------------------------------------------------------------------
(* Claims on the privileged operations *)

\* in this state update_system_params returns the parameters as they are to
\* every identity that is not the canister itself, whatever the patch
NonPrivilegedIgnored ==
    \A caller \in Callers \cup {External}, patch \in Patches :
        update_system_params(system_params, caller, patch) = system_params

\* C13: update_system_params called by an identity other than the canister's
\* own leaves the three system parameters and all other state unchanged and
\* returns without error.
C13_OutsidersIgnored ==
    /\ []NonPrivilegedIgnored
    /\ [][(ret'.op = "update_system_params" /\ ret'.caller # Self) =>
            /\ ret'.res = "Ok"
            /\ UNCHANGED <<accounts, proposals, next_proposal_id, system_params,
                           ticks, invoked>>]_vars

\* C13 happens: a token holder called update_system_params with a patch that
\* carries a transfer fee and a threshold other than the current ones
C13_Witness ==
    /\ ret.op = "update_system_params"
    /\ ret.caller \in Users
    /\ \E patch \in Patches :
           /\ patch.transfer_fee # <<>>
           /\ patch.transfer_fee[1] # system_params.transfer_fee
           /\ patch.proposal_vote_threshold # <<>>
           /\ patch.proposal_vote_threshold[1] # system_params.proposal_vote_threshold

\* C14: update_proposal_state changes the state of a proposal only when the
\* executor or the canister itself invokes it; called by any other identity
\* it leaves every proposal as it is.
C14_OverrideGuarded ==
    [][(ret'.op = "update_proposal_state" /\ ret'.caller # Self)
           => proposals' = proposals]_vars

----------------------------------------------------------------------------
(* Claims on the effects of vote *)

\* in this state, a vote that succeeds adds the balance the caller has now to
\* the tally of its choice, keeps the other tally, appends the caller to the
\* voter list and changes no other proposal
VoteAddsBalance ==
    \A caller \in Callers, id \in ProposalIds, choice \in Votes :
        LET out == vote(accounts, proposals, system_params, caller, id, choice,
                        overflow_checks)
        IN  out.res = "Ok" =>
                LET before == proposals[id]
                    after == out.proposals[id]
                    power == accounts[caller]
                IN  /\ choice = "Yes" =>
                           /\ after.votes_yes = (before.votes_yes + power) % TokenModulus
                           /\ after.votes_no = before.votes_no
                    /\ choice = "No" =>
                           /\ after.votes_no = (before.votes_no + power) % TokenModulus
                           /\ after.votes_yes = before.votes_yes
                    /\ after.voters = Append(before.voters, caller)
                    /\ \A other \in DOMAIN proposals \ {id} :
                           out.proposals[other] = proposals[other]

\* a step of vote is an application of vote to the state it starts in
VoteApplied ==
    ret'.op = "vote" =>
        \E caller \in Callers, choice \in Votes :
            LET out == vote(accounts, proposals, system_params, caller, ret'.id,
                            choice, overflow_checks)
            IN  proposals' = out.proposals /\ ret'.res = out.res

\* the scenario: holders of 6 and 5, threshold 10; the first Yes leaves the
\* proposal Open, the second makes votes_yes 11 and the proposal Accepted
ScenarioVotes ==
    (/\ ret'.op = "vote"
     /\ ret'.res = "Ok"
     /\ system_params.proposal_vote_threshold = 10
     /\ proposals'[ret'.id].votes_no = 0) =>
        LET before == proposals[ret'.id]
            after == proposals'[ret'.id]
        IN  /\ (/\ before.voters = <<>>
                /\ after.voters = <<"alice">>
                /\ accounts["alice"] = 6)
               => (after.votes_yes = 6 /\ after.state = Open /\ ret'.state = Open)
            /\ (/\ before.voters = <<"alice">>
                /\ before.votes_yes = 6
                /\ before.state = Open
                /\ after.voters = <<"alice", "bob">>
                /\ accounts["bob"] = 5)
               => (after.votes_yes = 11 /\ after.state = Accepted
                   /\ ret'.state = Accepted)

\* C15: a successful vote adds the balance the caller has at the moment of
\* the vote to votes_yes on Yes and to votes_no on No, leaves the other tally
\* unchanged and appends the caller to the voter list; with holders of 60 and
\* 50 and a threshold of 100 (6, 5 and 10 in the model's units of ten), the
\* first Yes leaves the proposal Open and the second makes votes_yes 110 and
\* the proposal Accepted.
C15_VoteAddsLiveBalance ==
    /\ []VoteAddsBalance
    /\ [][VoteApplied /\ ScenarioVotes]_vars

\* C15 happens: the second Yes vote of the scenario made votes_yes 11 and the
\* proposal Accepted
C15_Witness ==
    /\ ret.op = "vote"
    /\ ret.res = "Ok"
    /\ ret.state = Accepted
    /\ accounts = ScenarioAccounts
    /\ system_params.proposal_vote_threshold = 10
    /\ proposals[ret.id].voters = <<"alice", "bob">>
    /\ proposals[ret.id].votes_yes = 11
    /\ proposals[ret.id].votes_no = 0
    /\ proposals[ret.id].state = Accepted

----------------------------------------------------------------------------
(* Claims on what the executor and the overrides leave alone *)

\* in this step a pending call of the canister to itself ran: the method
\* returned, or it trapped
CallRan ==
    \E t \in TickIds :
        /\ ticks[t] # Idle
        /\ \/ ~ticks[t].delivered /\ ticks'[t].delivered
           \/ ~ticks[t].trapped /\ ticks'[t].trapped

\* in this step a pending call of the canister to itself trapped
CallTrapped ==
    \E t \in TickIds : ticks[t] # Idle /\ ~ticks[t].trapped /\ ticks'[t].trapped

\* the accounts a successful transfer or submit_proposal of this step may
\* change: the caller's and, for a transfer, the recipient's
Touched ==
    {ret'.caller} \cup (IF ret'.op = "transfer" THEN {ret'.to} ELSE {})

C17_ScanAtomic ==
    [][ret'.op = "heartbeat" =>
        /\ DOMAIN proposals' = DOMAIN proposals
        /\ \A id \in DOMAIN proposals :
               /\ proposals'[id].state # Accepted
               /\ proposals'[id] =
                      IF proposals[id].state = Accepted
                      THEN [proposals[id] EXCEPT !.state = Executing]
                      ELSE proposals[id]
        /\ {ret'.claimed[i] : i \in 1 .. Len(ret'.claimed)} = AcceptedIds(proposals)]_vars

\* C17 happens: one heartbeat claimed two Accepted proposals and both are
\* Executing
C17_Witness ==
    /\ ret.op = "heartbeat"
    /\ Len(ret.claimed) = 2
    /\ \A i \in 1 .. 2 : proposals[ret.claimed[i]].state = Executing

----------------------------------------------------------------------------
(* Claims on progress *)

HasState(id, tags) == id \in DOMAIN proposals /\ Tag(proposals[id].state) \in tags

\* C18: with heartbeats that keep being triggered and calls that all get a
\* response, a proposal that is Accepted is eventually Executing, and a
\* proposal that is Executing is eventually Succeeded or Failed.
C18_Progress ==
    \A id \in ProposalIds :
        /\ HasState(id, {"Accepted"}) ~> HasState(id, {"Executing"})
        /\ HasState(id, {"Executing"}) ~> HasState(id, {"Succeeded", "Failed"})

----------------------------------------------------------------------------
(* Claims on the errors of vote and on update_proposal_state *)

\* in this state, vote answers NoAccount to a caller without account, whether
\* or not the proposal exists, and NotFound to a caller with an account that
\* names a proposal id not in the store, and returns the proposals as they are
VoteErrors ==
    \A caller \in Callers, id \in ProposalIds, choice \in Votes :
        LET out == vote(accounts, proposals, system_params, caller, id, choice,
                        overflow_checks)
        IN  /\ caller \notin DOMAIN accounts =>
                   (out.res = "NoAccount" /\ out.proposals = proposals)
            /\ (caller \in DOMAIN accounts /\ id \notin DOMAIN proposals) =>
                   (out.res = "NotFound" /\ out.proposals = proposals)

\* C19: a vote that fails changes nothing; a caller without account gets
\* NoAccount, also for a proposal that does not exist, and a caller with an
\* account gets NotFound for a proposal id that is not in the store.
C19_FailedVote ==
    /\ []VoteErrors
    /\ [][(ret'.op = "vote" /\ ret'.res # "Ok") =>
            UNCHANGED <<accounts, proposals, next_proposal_id, system_params,
                        ticks, invoked>>]_vars
    /\ [][(ret'.op = "vote" /\ ret'.id \notin DOMAIN proposals) =>
            ret'.res \in {"NoAccount", "NotFound"}]_vars

\* C19 happens: a caller without account voted on a proposal id that is not
\* in the store, next to a stored proposal with votes, and got NoAccount
C19_Witness ==
    /\ ret.op = "vote"
    /\ ret.res = "NoAccount"
    /\ ret.id \notin DOMAIN proposals
    /\ Stranger \notin DOMAIN accounts
    /\ \E id \in DOMAIN proposals : proposals[id].voters # <<>>

\* in this state, update_proposal_state returns the store as it is for an id
\* that is not in it, and for a stored proposal a store that differs in the
\* state of that proposal only, which is the state passed
OverrideFrame ==
    \A id \in ProposalIds, new_state \in AnyStates :
        LET out == update_proposal_state(proposals, id, new_state)
        IN  IF id \notin DOMAIN proposals
            THEN out = proposals
            ELSE /\ DOMAIN out = DOMAIN proposals
                 /\ out[id] = [proposals[id] EXCEPT !.state = new_state]
                 /\ \A other \in DOMAIN proposals \ {id} : out[other] = proposals[other]

\* C20: update_proposal_state on an id that is not in the store changes
\* nothing and creates no proposal; on a stored proposal it replaces the
\* state and leaves the proposal's id, proposer, payload, tallies and voter
\* list, every other proposal, the balances, the next proposal id and the
\* system parameters unchanged.
C20_OverrideFrame ==
    /\ []OverrideFrame
    /\ [][ret'.op = "update_proposal_state" =>
            /\ DOMAIN proposals' = DOMAIN proposals
            /\ ret'.id \notin DOMAIN proposals => proposals' = proposals
            /\ \A id \in DOMAIN proposals :
                   proposals'[id] =
                       IF id = ret'.id
                       THEN [proposals[id] EXCEPT !.state = proposals'[id].state]
                       ELSE proposals[id]
            /\ UNCHANGED <<accounts, next_proposal_id, system_params, ticks,
                           invoked, passed>>]_vars

\* C20 happens: with two proposals in the store, an override made the second
\* one Rejected; it keeps its proposer and its payload, and the first
\* proposal is still Executing with its call pending
C20_Witness ==
    /\ ret.op = "update_proposal_state"
    /\ DOMAIN proposals = {1, 2}
    /\ ret.id = 2
    /\ proposals[2].state = Rejected
    /\ proposals[2].proposer = "bob"
    /\ proposals[2].payload.method = "update_system_params"
    /\ proposals[1].state = Executing
    /\ proposals[1].payload = ExternalRun
    /\ Pending(1)

----------------------------------------------------------------------------
(* Claims on the update of the system parameters *)

\* the value a field has after a patch: the patch's when present, else its own
Patched(current, option) == IF Len(option) = 0 THEN current ELSE option[1]

\* in this state, update_system_params called by the canister itself gives,
\* for every shape of patch, each present field the patch's value and each
\* absent field its current value
PatchFrame ==
    \A patch \in AnyPatches :
        LET out == update_system_params(system_params, Self, patch)
        IN  /\ DOMAIN out = DOMAIN system_params
            /\ \A field \in DOMAIN system_params :
                   out[field] = Patched(system_params[field], patch[field])
            /\ (\A field \in DOMAIN patch : patch[field] = <<>>) => out = system_params

\* a call of update_system_params by the canister itself applies the patch of
\* a pending call and changes no balance and no proposal
SelfUpdate ==
    (ret'.op = "update_system_params" /\ ret'.caller = Self) =>
        /\ \E t \in TickIds :
               /\ ticks[t] # Idle
               /\ ticks[t].payload.canister_id = Self
               /\ \A field \in DOMAIN system_params :
                      system_params'[field] =
                          Patched(system_params[field], ticks[t].payload.message[field])
        /\ UNCHANGED <<accounts, proposals, next_proposal_id>>

\* transfer, submit_proposal and vote work with the parameters in force when
\* they are called
ParamsInForce ==
    /\ (ret'.op = "transfer" /\ ret'.res = "Ok" /\ ret'.caller # ret'.to) =>
           accounts'[ret'.caller] =
               (accounts[ret'.caller] + 2 * TokenModulus
                - ret'.amount - system_params.transfer_fee) % TokenModulus
    /\ ret'.op = "submit_proposal" =>
           IF ret'.res = "Ok"
           THEN /\ accounts[ret'.caller] >= system_params.proposal_submission_deposit
                /\ accounts'[ret'.caller] =
                       accounts[ret'.caller] - system_params.proposal_submission_deposit
           ELSE ret'.caller \in DOMAIN accounts =>
                    accounts[ret'.caller] < system_params.proposal_submission_deposit
    /\ (ret'.op = "vote" /\ ret'.res = "Ok") =>
           LET before == proposals[ret'.id]
               after == proposals'[ret'.id]
               T == system_params.proposal_vote_threshold
           IN  /\ after.votes_yes >= T => after.state = Accepted
               /\ (after.votes_yes < T /\ after.votes_no < T) =>
                      after.state = before.state

\* C21: update_system_params called by the canister itself overwrites the
\* fields present in the patch and leaves the absent ones at their value (an
\* empty patch changes nothing); it changes no balance and no proposal; and
\* the transfers, submissions and votes that follow use the updated fee,
\* deposit and threshold.
C21_PatchApplied ==
    /\ []PatchFrame
    /\ [][SelfUpdate /\ ParamsInForce]_vars

\* C21 happens: after a proposal updated the fee and the threshold and left
\* the deposit, alice's vote of 3 tokens, under the old threshold of 2,
\* accepted a proposal and her next vote of 2 tokens, on the proposal she then
\* submitted for the unchanged deposit of 1, does not reach the new threshold
C21_Witness ==
    /\ system_params = [transfer_fee |-> 2, proposal_vote_threshold |-> 3,
                        proposal_submission_deposit |-> 1]
    /\ proposals[MaxProposals].state = Succeeded
    /\ proposals[MaxProposals].payload.message.proposal_submission_deposit = <<>>
    /\ ret.op = "vote"
    /\ ret.res = "Ok"
    /\ ret.id = 1
    /\ ret.state = Open
    /\ proposals[1].votes_yes = 2
    /\ proposals[1].voters = <<"alice">>
    /\ accounts["alice"] = 2

----------------------------------------------------------------------------
(* Claims on the accounting of votes *)

\* C22: the voter list of a proposal created by submit_proposal holds no
\* identity twice and votes_yes + votes_no is the sum of the balances its
\* voters had when they voted: a proposal starts with empty tallies and no
\* voters, a successful vote appends a caller that is not in the list and
\* raises one tally by that caller's balance, and no other step changes the
\* tallies or the voter list.
C22_TalliesAreVoterPowers ==
    [][\A id \in DOMAIN proposals' :
          LET after == proposals'[id]
          IN  IF id \notin DOMAIN proposals \/ Resubmitted(id)
              THEN after.votes_yes = 0 /\ after.votes_no = 0 /\ after.voters = <<>>
              ELSE LET before == proposals[id]
                   IN  IF ret'.op = "vote" /\ ret'.res = "Ok" /\ ret'.id = id
                       THEN \E caller \in DOMAIN accounts :
                                /\ ~Contains(before.voters, caller)
                                /\ after.voters = Append(before.voters, caller)
                                /\ after.votes_yes + after.votes_no =
                                       before.votes_yes + before.votes_no
                                       + accounts[caller]
                                /\ \/ after.votes_yes = before.votes_yes
                                   \/ after.votes_no = before.votes_no
                       ELSE /\ after.voters = before.voters
                            /\ after.votes_yes = before.votes_yes
                            /\ after.votes_no = before.votes_no]_vars

----------------------------------------------------------------------------
(* Claims on what gets executed *)

\* C23: when update_proposal_state is called by the executor only, the
\* target of a proposal is invoked, and the proposal is Executing, Succeeded
\* or Failed, only if a vote on it ended with votes_yes at or over the
\* threshold in force at that vote.
C23_ExecutedOnlyIfPassed ==
    \A id \in DOMAIN proposals :
        (\/ invoked[id] > 0
         \/ Tag(proposals[id].state) \in {"Executing", "Succeeded", "Failed"})
        => passed[id]
====
